---- MODULE Spec2Model ----
(***************************************************************************)
(* A model of the iamarchitect.sg directory scrapers: scraper.py (AJAX     *)
(* page loop), scraper2.py (selector fallback, email strategies, filtered  *)
(* CSV writer) and scraper3.py (single selector, unguarded decoder).       *)
(*                                                                         *)
(* A Python str is a sequence of character codes (ord values).             *)
(***************************************************************************)
EXTENDS Integers, Sequences, FiniteSets, TLC

VARIABLES
    variant,    \* which script runs: "scraper", "scraper2" or "scraper3"
    featured,   \* the page index whose content the site is free to choose
    pc,         \* the page loop: "loop", "cards", "raw", "sleep", "save", "done"
    page,       \* the loop variable page (page_num)
    doc,        \* the response of the current page, as parsed
    sel,        \* index in Selectors of the selector whose matches are iterated
    idx,        \* position of the next card (or raw match) to process
    raised,     \* whether an exception ended the current page's processing
    tried,      \* the selectors evaluated on the current page, in order
    yielded,    \* what scrape_page has yielded for the current page
    data,       \* scraper.py's all_specialists_data
    written,    \* the rows of the output file below its header
    visited,    \* the page indices the loop body has started on, in order
    dec_pc,     \* function harness: "idle", "call" (argument bound) or "done"
    dec_src,    \* how the argument was built: "encoded", "raw" or "none" for
                \* cf_decode, "name" for parse_name, "company" for
                \* clean_company_name
    dec_key,    \* the key byte the argument was encoded with
    dec_payload,\* the payload bytes the argument was encoded from
    dec_in,     \* the argument of the call (hex_str of cf_decode)
    dec_out     \* the outcome of the call: [ok, val]

decvars == <<dec_pc, dec_src, dec_key, dec_payload, dec_in, dec_out>>

runvars == <<featured, pc, page, doc, sel, idx, raised, tried, yielded, data,
             written, visited>>

vars == <<variant, runvars, decvars>>

\* ------------------------------------------------------------------ bounds

\* longest payload (in bytes) an encoded decoder argument carries
MaxPayloadLen == 2

\* longest arbitrary decoder argument (in characters)
MaxHexLen == 3

\* most candidate divs on a page that holds more than one
MaxCards == 2

\* most email-protection fragments in a page's markup outside its cards
MaxLoose == 2

\* most pieces a name text (a company text) is put together from
MaxNamePieces == 3
MaxCompanyPieces == 3

\* ------------------------------------------------------ program constants

TOTAL_PAGES == 21

\* ------------------------------------------------------- characters, strings

EMPTY == << >>

SeqsUpTo(S, n) == UNION {[1..m -> S] : m \in 0..n}

Range(s) == {s[i] : i \in 1..Len(s)}

\* str.isspace() over the Latin-1 range, which str.strip() and int() trim
IsSpace(c) == c \in {9, 10, 11, 12, 13, 28, 29, 30, 31, 32, 133, 160}

IsDigit(c) == c \in 48..57
IsUpper(c) == c \in 65..90
IsLower(c) == c \in 97..122
IsAlpha(c) == IsUpper(c) \/ IsLower(c)
IsHexDigit(c) == IsDigit(c) \/ c \in 65..70 \/ c \in 97..102

HexVal(c) ==
    IF IsDigit(c) THEN c - 48
    ELSE IF c \in 65..70 THEN c - 55
    ELSE c - 87

\* s[a:b] with Python's 0-based, end-exclusive, clamped slice bounds
Slice(s, a, b) ==
    LET lo == IF a < 0 THEN 0 ELSE a
        hi == IF b > Len(s) THEN Len(s) ELSE b
    IN  IF hi <= lo THEN EMPTY ELSE [i \in 1..(hi - lo) |-> s[lo + i]]

RECURSIVE LStrip(_)
LStrip(s) == IF s # EMPTY /\ IsSpace(Head(s)) THEN LStrip(Tail(s)) ELSE s

RECURSIVE RStrip(_)
RStrip(s) ==
    IF s # EMPTY /\ IsSpace(s[Len(s)]) THEN RStrip(SubSeq(s, 1, Len(s) - 1)) ELSE s

\* str.strip()
Strip(s) == RStrip(LStrip(s))

\* --------------------------------------------------------------- arithmetic

RECURSIVE BitXor(_, _)
BitXor(a, b) ==
    IF a = 0 THEN b
    ELSE IF b = 0 THEN a
    ELSE ((a + b) % 2) + 2 * BitXor(a \div 2, b \div 2)

\* Python's a ^ b on its unbounded two's-complement ints, for |a|, |b| < 512
PyXor(a, b) ==
    LET r == BitXor(a % 1024, b % 1024)
    IN  IF r >= 512 THEN r - 1024 ELSE r

\* the value no successful parse returns
PARSE_ERROR == 4096

\* a literal of at most 2 characters, already trimmed: hex digits, or one sign
\* and a hex digit; PARSE_ERROR stands for ValueError
ParseHex(t) ==
    IF Len(t) = 1 /\ IsHexDigit(t[1]) THEN HexVal(t[1])
    ELSE IF Len(t) = 2 /\ IsHexDigit(t[1]) /\ IsHexDigit(t[2])
        THEN 16 * HexVal(t[1]) + HexVal(t[2])
    ELSE IF Len(t) = 2 /\ t[1] = 43 /\ IsHexDigit(t[2]) THEN HexVal(t[2])
    ELSE IF Len(t) = 2 /\ t[1] = 45 /\ IsHexDigit(t[2]) THEN 0 - HexVal(t[2])
    ELSE PARSE_ERROR

\* int(s, 16) for a slice s of at most 2 characters: int() trims the
\* whitespace around the literal
IntBase16(s) == ParseHex(Strip(s))

\* chr(v): ValueError outside range(0x110000); below, |v| < 512
Chr(v) == IF v < 0 THEN PARSE_ERROR ELSE v

\* chr(byte_val): the character were the key left out of the XOR
ChrNoKey(byte_val, key) == IF byte_val = PARSE_ERROR THEN PARSE_ERROR ELSE Chr(byte_val)

\* chr(byte_val ^ key) for a parsed byte_val
XorChr(byte_val, key) ==
    IF byte_val = PARSE_ERROR THEN PARSE_ERROR ELSE Chr(PyXor(byte_val, key))

\* ----------------------------------------------------------------- decoder

Returned(s) == [ok |-> TRUE, val |-> s]
Raised == [ok |-> FALSE, val |-> EMPTY]

\* the characters of the first n slices hex_str[i:i + 2], i = 2, 4, ...
DecodePairs(h, key, n) ==
    [j \in 1..n |-> XorChr(IntBase16(Slice(h, 2 * j, 2 * j + 2)), key)]

\* the decoded string, or the ValueError of one of its characters
Collect(chars) == IF PARSE_ERROR \in Range(chars) THEN Raised ELSE Returned(chars)

\* scraper2.cf_decode past its key: a slice is decoded only when both its
\* characters exist ("if i + 1 < len(hex_str)")
DecodeKeyed2(h, key) ==
    IF key = PARSE_ERROR THEN Raised
    ELSE Collect(DecodePairs(h, key, (Len(h) - 2) \div 2))

\* scraper2.cf_decode past hex_str.strip()
DecodeStripped2(h) ==
    IF Len(h) < 2 THEN Returned(EMPTY)
    ELSE DecodeKeyed2(h, IntBase16(Slice(h, 0, 2)))

\* the body of the try block of scraper2.cf_decode
DecodeTry2(hex_str) == DecodeStripped2(Strip(hex_str))

\* what scraper2.cf_decode returns for an exception raised in its try block
SwallowDecodeError(r) == IF r.ok THEN r ELSE Returned(EMPTY)

\* scraper2.cf_decode
cf_decode2(hex_str) == SwallowDecodeError(DecodeTry2(hex_str))

\* how many slices range(2, n, 2) gives: a trailing single character too
SliceCount3(n) == IF n <= 2 THEN 0 ELSE (n - 1) \div 2

\* scraper3.cf_decode past its key: every slice hex_str[i:i + 2] is parsed
DecodeKeyed3(h, key) ==
    IF key = PARSE_ERROR THEN Raised
    ELSE Collect(DecodePairs(h, key, SliceCount3(Len(h))))

\* scraper3.cf_decode
cf_decode3(hex_str) == DecodeKeyed3(hex_str, IntBase16(Slice(hex_str, 0, 2)))

\* ---------------------------------------------------------- string literals

\* "mailto:"
STR_MAILTO == <<109, 97, 105, 108, 116, 111, 58>>

\* "email-protection"
STR_EMAIL_PROTECTION ==
    <<101, 109, 97, 105, 108, 45, 112, 114, 111, 116, 101, 99, 116, 105, 111, 110>>

\* "/cdn-cgi/l/email-protection#"
STR_PROTECTION_PATH ==
    <<47, 99, 100, 110, 45, 99, 103, 105, 47, 108, 47>> \o STR_EMAIL_PROTECTION \o <<35>>

\* "Name not found"
STR_NAME_NOT_FOUND == <<78, 97, 109, 101, 32, 110, 111, 116, 32, 102, 111, 117, 110, 100>>

\* "Name Not Found"
STR_NAME_NOT_FOUND_TITLE == <<78, 97, 109, 101, 32, 78, 111, 116, 32, 70, 111, 117, 110, 100>>

\* "Company not found"
STR_COMPANY_NOT_FOUND ==
    <<67, 111, 109, 112, 97, 110, 121, 32, 110, 111, 116, 32, 102, 111, 117, 110, 100>>

\* "Not available"
STR_NOT_AVAILABLE == <<78, 111, 116, 32, 97, 118, 97, 105, 108, 97, 98, 108, 101>>

\* ------------------------------------------------------------ str methods

RECURSIVE Concat(_)
Concat(ss) == IF ss = EMPTY THEN EMPTY ELSE Head(ss) \o Concat(Tail(ss))

\* s.startswith(sub) at 0-based offset i
MatchAt(s, sub, i) == Slice(s, i, i + Len(sub)) = sub

StartsWith(s, sub) == MatchAt(s, sub, 0)

\* sub in s, for a non-empty sub
Contains(s, sub) == \E i \in 0..Len(s) : MatchAt(s, sub, i)

\* s.replace(sub, ""): every non-overlapping occurrence, left to right
RECURSIVE Remove(_, _)
Remove(s, sub) ==
    IF s = EMPTY THEN EMPTY
    ELSE IF MatchAt(s, sub, 0) THEN Remove(Slice(s, Len(sub), Len(s)), sub)
    ELSE <<Head(s)>> \o Remove(Tail(s), sub)

\* s.split(c)[-1]: what follows the last occurrence of character c
AfterLast(s, c) ==
    LET at == {i \in 1..Len(s) : s[i] = c}
    IN  IF at = {} THEN s
        ELSE Slice(s, CHOOSE i \in at : \A j \in at : j <= i, Len(s))

ToUpper(c) == IF IsLower(c) THEN c - 32 ELSE c
ToLower(c) == IF IsUpper(c) THEN c + 32 ELSE c

\* str.title() on ASCII text: a letter is upper-cased after an uncased
\* character (or at the start) and lower-cased after a letter
Title(s) ==
    [i \in 1..Len(s) |->
        IF ~IsAlpha(s[i]) THEN s[i]
        ELSE IF i > 1 /\ IsAlpha(s[i - 1]) THEN ToLower(s[i])
        ELSE ToUpper(s[i])]

\* ------------------------------------------------------- regular expressions

\* \w and the character classes of email_pattern, on ASCII text
IsWord(c) == IsAlpha(c) \/ IsDigit(c) \/ c = 95
AsciiChars == 0..127
SpaceChars == {c \in 0..255 : IsSpace(c)}
LocalChars == {c \in AsciiChars : IsAlpha(c) \/ IsDigit(c) \/ c \in {46, 95, 37, 43, 45}}
DomainChars == {c \in AsciiChars : IsAlpha(c) \/ IsDigit(c) \/ c \in {46, 45}}
\* [A-Z|a-z] holds the bar as well
TldChars == {c \in AsciiChars : IsAlpha(c) \/ c = 124}

\* \b between 1-based positions i and i + 1 (position 0 and Len + 1 are outside)
WordBoundary(s, i) ==
    LET before == i >= 1 /\ IsWord(s[i])
        after == i + 1 <= Len(s) /\ IsWord(s[i + 1])
    IN  before # after

\* last position of the run of characters of class C from position i on
RunEnd(s, i, C) ==
    LET stop == {j \in i..Len(s) : s[j] \notin C}
    IN  IF stop # {} THEN (CHOOSE j \in stop : \A k \in stop : j <= k) - 1
        ELSE IF i > Len(s) THEN i - 1
        ELSE Len(s)

Least(S) == CHOOSE x \in S : \A y \in S : x <= y

\* the <<dot, end>> pairs a match can close with, for the '@' at position at
\* and the domain characters running to position m: a dot of the domain, then
\* 2 or more top-level characters ending at a \b
DotEnds(s, at, m) ==
    {de \in ((at + 2)..m) \X (1..Len(s)) :
        /\ s[de[1]] = 46
        /\ de[2] >= de[1] + 2
        /\ de[2] <= RunEnd(s, de[1] + 1, TldChars)
        /\ WordBoundary(s, de[2])}

\* the same for a match starting at position st whose local part ends before at
EmailEndsAt(s, st, at) ==
    IF WordBoundary(s, st - 1) /\ at > st /\ at <= Len(s) /\ s[at] = 64
        THEN DotEnds(s, at, RunEnd(s, at + 1, DomainChars))
        ELSE {}

\* the local part of a match is the whole run up to the '@'
EmailEnds(s, st) == EmailEndsAt(s, st, RunEnd(s, st, LocalChars) + 1)

\* what the backtracking settles on: the greedy domain keeps the last dot
\* that works, the greedy top-level part the last end that works
Greedy(ends) ==
    CHOOSE x \in ends : \A y \in ends : y[1] < x[1] \/ (y[1] = x[1] /\ y[2] <= x[2])

\* the match at the leftmost of the starts
MatchAmong(s, starts) ==
    IF starts = {} THEN EMPTY
    ELSE SubSeq(s, Least(starts), Greedy(EmailEnds(s, Least(starts)))[2])

\* re.search(email_pattern, s).group(0), or the empty string for no match
EmailSearch(s) == MatchAmong(s, {st \in 1..Len(s) : EmailEnds(s, st) # {}})

\* html.unescape(text); the texts of the model hold no '&', which it leaves
\* as they are
decode_html_entities(text) == text

\* scraper2.extract_email_from_text
extract_email_from_text(text) == EmailSearch(decode_html_entities(text))

\* "PTE" and "LTD", matched under re.IGNORECASE
STR_PTE == <<80, 84, 69>>
STR_LTD == <<76, 84, 68>>

UpperStr(s) == [i \in 1..Len(s) |-> ToUpper(s[i])]

\* where LTD\s* ends when it starts at 0-based offset b, or -1
LtdEnd(s, b) ==
    IF UpperStr(Slice(s, b, b + 3)) = STR_LTD THEN RunEnd(s, b + 4, SpaceChars)
    ELSE 0 - 1

\* where PTE\s*LTD\s* ends when it starts at 0-based offset a, or -1
PteEnd(s, a) ==
    IF UpperStr(Slice(s, a, a + 3)) = STR_PTE
        THEN LtdEnd(s, RunEnd(s, a + 4, SpaceChars))
        ELSE 0 - 1

\* where a match of \s*PTE\s*LTD\s* starting at 0-based offset i ends, or -1
SuffixMatchEnd(s, i) == PteEnd(s, RunEnd(s, i + 1, SpaceChars))

\* re.sub(r'\s*PTE\s*LTD\s*', '', s, flags=re.IGNORECASE) from offset i on,
\* e being where a match at i ends
RECURSIVE StripSuffixFrom(_, _)
StripSuffixStep(s, i, e) ==
    IF e >= 0 THEN StripSuffixFrom(s, e)
    ELSE <<s[i + 1]>> \o StripSuffixFrom(s, i + 1)

StripSuffixFrom(s, i) ==
    IF i >= Len(s) THEN EMPTY ELSE StripSuffixStep(s, i, SuffixMatchEnd(s, i))

\* scraper2.clean_company_name
clean_company_name(company) ==
    IF company = EMPTY THEN EMPTY
    ELSE Title(Strip(StripSuffixFrom(company, 0)))

\* a split on whitespace alone
SplitsOnSpace(c) == IsSpace(c)

\* what the pattern [,\s] matches
IsNameSep(c) == c = 44 \/ IsSpace(c)
NameChars == {c \in 0..255 : ~IsNameSep(c)}

\* re.split(r'[,\s]+', s) without its empty strings; e ends the first token
RECURSIVE Tokens(_)
TokensFrom(s, e) == <<SubSeq(s, 1, e)>> \o Tokens(Slice(s, e, Len(s)))

Tokens(s) ==
    IF s = EMPTY THEN EMPTY
    ELSE IF IsNameSep(Head(s)) THEN Tokens(Tail(s))
    ELSE TokensFrom(s, RunEnd(s, 1, NameChars))

\* the return of scraper2.parse_name for the list parts
NameOf(parts) ==
    IF parts = EMPTY THEN <<EMPTY, EMPTY>>
    ELSE IF Len(parts) = 1 THEN <<parts[1], EMPTY>>
    ELSE <<parts[1], parts[Len(parts)]>>

\* scraper2.parse_name, as <<first_name, last_name>>
parse_name(full_name) ==
    IF full_name = EMPTY THEN <<EMPTY, EMPTY>>
    ELSE NameOf(Tokens(Title(Strip(full_name))))

\* -------------------------------------------------------------- the markup

(***************************************************************************)
(* A card is the part of the parsed tree the scripts read:                 *)
(*   name, company : [sel, txt], the one name (company) element by the     *)
(*                   selector that describes it ("none": no element) and   *)
(*                   its text node                                         *)
(*   text          : a text node of the card outside those elements        *)
(*   links         : the card's <a> elements in document order, each       *)
(*                   [cls, has, cfemail, href, text]: its class, whether   *)
(*                   it has a data-cfemail attribute, that attribute, its  *)
(*                   href and its text node                                *)
(*   span          : [present, has, cfemail], a span.__cf_email__          *)
(***************************************************************************)

CF_CLASS == "__cf_email__"

H2_TITLE == "h2.testimonial-entry-title"
P_GREY == "p.search-specialist-grey-txt"
P_SUBTITLE == "p.sub-title-1"

\* the kinds of name (company) element, among those of the model, that each
\* branch's select_one calls find
PrimaryNameSels == {H2_TITLE}
FallbackNameSels == {H2_TITLE, "h5"}
PrimaryCompanySels == {P_GREY}
FallbackCompanySels == {P_GREY, P_SUBTITLE}

\* el.get_text(strip=True) if el else "", for the element found by sels
ElementText(el, sels) == IF el.sel \in sels THEN Strip(el.txt) ELSE EMPTY

RECURSIVE LinkTexts(_)
LinkTexts(links) ==
    IF links = EMPTY THEN EMPTY ELSE Head(links).text \o LinkTexts(Tail(links))

\* card.get_text(): the text nodes of the card, in document order
CardText(card) ==
    card.name.txt \o card.company.txt \o card.text \o LinkTexts(card.links)

\* card.select(...): the links that satisfy a selector, in document order
CfLinks(card) == SelectSeq(card.links, LAMBDA l : l.cls = CF_CLASS)
MailtoLinks(card) == SelectSeq(card.links, LAMBDA l : StartsWith(l.href, STR_MAILTO))
ProtectionLinks(card) ==
    SelectSeq(card.links, LAMBDA l : Contains(l.href, STR_EMAIL_PROTECTION))

\* encoded and encoded.has_attr("data-cfemail"), for the elements that
\* "a.__cf_email__" selects
HasAttr(encoded) == encoded # EMPTY /\ Head(encoded).has

HasEncoded(card) == HasAttr(CfLinks(card))

\* encoded["data-cfemail"]
EncodedAttr(card) == Head(CfLinks(card)).cfemail

\* a candidate for email_txt and the strategy it comes from
Found(email, via) == [email |-> email, via |-> via]
NotFound == Found(EMPTY, "none")

\* "if not email_txt": the next strategy runs while the email is empty
OrElse(found, next) == IF found.email # EMPTY THEN found ELSE next

\* "if decoded and '@' in decoded"
DecodedEmail(decoded) ==
    IF decoded # EMPTY /\ 64 \in Range(decoded) THEN Found(decoded, "protection")
    ELSE NotFound

\* "if '#' in href": the payload after the last '#', decoded
HrefEmail(href) ==
    IF 35 \in Range(href) THEN DecodedEmail(cf_decode2(AfterLast(href, 35)).val)
    ELSE NotFound

\* "if '@' in text": the email pattern searched in text
TextEmail(text, via) ==
    IF 64 \in Range(text) THEN Found(extract_email_from_text(text), via)
    ELSE NotFound

\* the loop over protection_links; in the primary branch (with_text) a link's
\* text is searched after its href
RECURSIVE ProtectionScan(_, _)
ProtectionScan(links, with_text) ==
    IF links = EMPTY THEN NotFound
    ELSE OrElse(HrefEmail(Head(links).href),
           OrElse(IF with_text THEN TextEmail(Strip(Head(links).text), "protection")
                               ELSE NotFound,
                  ProtectionScan(Tail(links), with_text)))

\* "If still no email, look for @ in card text"
TextScan(card) == TextEmail(CardText(card), "text")

\* the primary branch's loop over all_links: the first href holding "mailto:"
RECURSIVE MailtoScan(_)
MailtoScan(links) ==
    IF links = EMPTY THEN NotFound
    ELSE IF Contains(Head(links).href, STR_MAILTO)
        THEN Found(Remove(Head(links).href, STR_MAILTO), "mailto")
    ELSE MailtoScan(Tail(links))

\* the fallback branch's loop over all_links: the first link text with an email
RECURSIVE LinkTextScan(_)
LinkTextScan(links) ==
    IF links = EMPTY THEN NotFound
    ELSE OrElse(TextEmail(Strip(Head(links).text), "link_text"),
                LinkTextScan(Tail(links)))

\* email_txt of the primary (div.testimonial-cite) branch of
\* scraper2.scrape_page: the data-cfemail anchor decides alone when there is
\* one; otherwise protection links, card text, then mailto
EmailPrimary(card) ==
    IF HasEncoded(card) THEN Found(cf_decode2(EncodedAttr(card)).val, "cfemail")
    ELSE OrElse(ProtectionScan(ProtectionLinks(card), TRUE),
           OrElse(TextScan(card), MailtoScan(card.links)))

\* Methods 1, 2 and 4 of the fallback branch
Method1(card) ==
    IF HasEncoded(card) THEN Found(cf_decode2(EncodedAttr(card)).val, "cfemail")
    ELSE NotFound

Method2(card) ==
    IF MailtoLinks(card) # EMPTY
        THEN Found(Remove(Head(MailtoLinks(card)).href, STR_MAILTO), "mailto")
        ELSE NotFound

Method4(card) ==
    IF card.span.present /\ card.span.has
        THEN Found(cf_decode2(card.span.cfemail).val, "cfspan")
        ELSE NotFound

\* email_txt of the fallback-selector branch of scraper2.scrape_page
EmailFallback(card) ==
    OrElse(Method1(card),
      OrElse(Method2(card),
        OrElse(ProtectionScan(ProtectionLinks(card), FALSE),
          OrElse(Method4(card),
            OrElse(TextScan(card), LinkTextScan(card.links))))))

\* what processing one card gives: a record, or an exception out of scrape_page
Yielded(rec, via) == [raised |-> FALSE, rec |-> rec, via |-> via]
Thrown == [raised |-> TRUE, rec |-> EMPTY, via |-> "none"]

\* the yield of a record whose email is found.email
YieldFound(rec, found) ==
    Yielded(rec, IF found.email = EMPTY THEN "none" ELSE found.via)

\* the tuple of scraper2.scrape_page, names being parse_name's return
Row2(names, full_name, cleaned_company, email_txt) ==
    <<names[1], names[2], full_name, cleaned_company, email_txt>>

\* "Clean and format the data" of scraper2.scrape_page
Record2(name_txt, company_txt, email_txt) ==
    Row2(parse_name(name_txt),
         IF name_txt # EMPTY THEN Title(Strip(name_txt)) ELSE EMPTY,
         clean_company_name(company_txt),
         email_txt)

\* one card of scraper2.scrape_page, given its email
Card2With(card, primary, found) ==
    YieldFound(
        Record2(ElementText(card.name,
                    IF primary THEN PrimaryNameSels ELSE FallbackNameSels),
                ElementText(card.company,
                    IF primary THEN PrimaryCompanySels ELSE FallbackCompanySels),
                found.email),
        found)

\* one card of scraper2.scrape_page; primary: the div.testimonial-cite branch
Card2(card, primary) ==
    Card2With(card, primary,
              IF primary THEN EmailPrimary(card) ELSE EmailFallback(card))

\* one card of scraper3.scrape_page, given the outcome of its cf_decode call:
\* the decoder's exception leaves the generator
Card3With(card, decoded) ==
    IF ~decoded.ok THEN Thrown
    ELSE YieldFound(<<ElementText(card.name, PrimaryNameSels),
                      ElementText(card.company, PrimaryCompanySels),
                      decoded.val>>,
                    Found(decoded.val, "cfemail"))

\* one card of scraper3.scrape_page
Card3(card) ==
    Card3With(card,
              IF HasEncoded(card) THEN cf_decode3(EncodedAttr(card))
              ELSE Returned(EMPTY))

\* one card of scraper.py's page loop
Card1(card) ==
    <<IF card.name.sel = "h5" THEN Strip(card.name.txt) ELSE STR_NOT_AVAILABLE,
      IF card.company.sel = P_SUBTITLE THEN Strip(card.company.txt) ELSE STR_NOT_AVAILABLE,
      IF MailtoLinks(card) # EMPTY
          THEN Strip(Remove(Head(MailtoLinks(card)).href, STR_MAILTO))
          ELSE STR_NOT_AVAILABLE>>

\* the record of one match of the last resort of scraper2.scrape_page
SentinelRecord(decoded_email) ==
    Row2(parse_name(STR_NAME_NOT_FOUND),
         STR_NAME_NOT_FOUND_TITLE,
         clean_company_name(STR_COMPANY_NOT_FOUND),
         decoded_email)

\* ---------------------------------------------------------------- encoding

HexDigitChar(v, upper) ==
    IF v < 10 THEN 48 + v ELSE IF upper THEN 55 + v ELSE 87 + v

\* the two hex digits of byte b
HexByte(b, upper) == <<HexDigitChar(b \div 16, upper), HexDigitChar(b % 16, upper)>>

RECURSIVE EncodePayload(_, _, _)
EncodePayload(k, p, upper) ==
    IF p = EMPTY THEN EMPTY
    ELSE HexByte(PyXor(Head(p), k), upper) \o EncodePayload(k, Tail(p), upper)

\* Cloudflare's obfuscation: the key byte, then each payload byte XOR key, in hex
Encode(k, p, upper) == HexByte(k, upper) \o EncodePayload(k, p, upper)

\* ---------------------------------------------------------------- the page

(***************************************************************************)
(* A response is [status, divs, loose]: the outcome of the request         *)
(* ("ok", "http_error" and, for scraper.py's JSON endpoint, "bad_json" and *)
(* "not_success"), the candidate <div> elements of the markup in document  *)
(* order, each [class, card], and the hex payloads of the email-protection *)
(* fragments of the markup that lie outside the cards' anchors.            *)
(***************************************************************************)

\* the primary selector, then alternative_selectors in their listed order
Selectors ==
    <<"div.testimonial-cite",
      "div.search-result-item",
      "div.search-specialist-result-item",
      "div[class*='result']",
      "div[class*='specialist']">>

\* the class attributes of the model's divs
DivClasses ==
    {"testimonial-cite", "search-result-item", "search-specialist-result-item",
     "result-box", "specialist-card", "sidebar"}

\* whether a div of class cls satisfies Selectors[k]
Matches(cls, k) ==
    IF k = 1 THEN cls = "testimonial-cite"
    ELSE IF k = 2 THEN cls = "search-result-item"
    ELSE IF k = 3 THEN cls = "search-specialist-result-item"
    ELSE IF k = 4
        THEN cls \in {"search-result-item", "search-specialist-result-item", "result-box"}
    ELSE cls \in {"search-specialist-result-item", "specialist-card"}

RECURSIVE CardsOf(_)
CardsOf(divs) ==
    IF divs = EMPTY THEN EMPTY ELSE <<Head(divs).card>> \o CardsOf(Tail(divs))

\* soup.select(Selectors[k])
Select(d, k) == CardsOf(SelectSeq(d.divs, LAMBDA v : Matches(v.class, k)))

\* the selectors that match at least one element of the response
Matching(d) == {k \in 1..Len(Selectors) : Select(d, k) # EMPTY}

LeastOr0(S) == IF S = {} THEN 0 ELSE Least(S)

\* the last selector that matches, 0 when none does: the loop over the
\* selectors were it to run on past a match
LastMatching(d) ==
    IF Matching(d) = {} THEN 0
    ELSE CHOOSE k \in Matching(d) : \A j \in Matching(d) : j <= k

\* the least selector that matches, 0 when none does
FirstMatching(d) == LeastOr0(Matching(d))

HexChars == {c \in AsciiChars : IsHexDigit(c)}

\* what email_protection_pattern captures in one href: the hex digits after
\* the path's '#', when there is one (an href holds the path at most once)
CodeFrom(href, from) ==
    IF RunEnd(href, from + 1, HexChars) <= from THEN EMPTY
    ELSE <<Slice(href, from, RunEnd(href, from + 1, HexChars))>>

CodeAt(href, at) ==
    IF at = {} THEN EMPTY ELSE CodeFrom(href, Least(at) + Len(STR_PROTECTION_PATH))

HrefCodes(href) ==
    CodeAt(href, {i \in 0..Len(href) : MatchAt(href, STR_PROTECTION_PATH, i)})

RECURSIVE LinkCodes(_)
LinkCodes(links) ==
    IF links = EMPTY THEN EMPTY
    ELSE HrefCodes(Head(links).href) \o LinkCodes(Tail(links))

RECURSIVE DivCodes(_)
DivCodes(divs) ==
    IF divs = EMPTY THEN EMPTY
    ELSE LinkCodes(Head(divs).card.links) \o DivCodes(Tail(divs))

\* re.findall(email_protection_pattern, resp.text)
RawMatches(d) == DivCodes(d.divs) \o d.loose

\* any(record)
AnyField(rec) == \E i \in 1..Len(rec) : rec[i] # EMPTY

\* ----------------------------------------------------- the site (the inputs)

\* "jane TAN", "ABC Pte Ltd", "Pte Ltd"
TXT_JANE == <<106, 97, 110, 101, 32, 84, 65, 78>>
TXT_ABC == <<65, 66, 67, 32, 80, 116, 101, 32, 76, 116, 100>>
TXT_PTE == <<80, 116, 101, 32, 76, 116, 100>>

\* "m@y.sg", "t@w.org", "c@v.net", "j@x.co", "p@z.io", "s@u.my", "r@q.io"
TXT_MAIL_M == <<109, 64, 121, 46, 115, 103>>
TXT_MAIL_T == <<116, 64, 119, 46, 111, 114, 103>>
TXT_MAIL_C == <<99, 64, 118, 46, 110, 101, 116>>
TXT_MAIL_J == <<106, 64, 120, 46, 99, 111>>
TXT_MAIL_P == <<112, 64, 122, 46, 105, 111>>
TXT_MAIL_S == <<115, 64, 117, 46, 109, 121>>
TXT_MAIL_R == <<114, 64, 113, 46, 105, 111>>

\* "/contact", "Email", "AB", "zz", "ab"
TXT_CONTACT == <<47, 99, 111, 110, 116, 97, 99, 116>>
TXT_EMAIL_LABEL == <<69, 109, 97, 105, 108>>
TXT_NOT_MAIL == <<65, 66>>
TXT_NOT_HEX == <<122, 122>>
TXT_KEY_ONLY == <<97, 98>>

\* "[email protected]" with its no-break space, Cloudflare's anchor text
TXT_PROTECTED ==
    <<91, 101, 109, 97, 105, 108, 160, 112, 114, 111, 116, 101, 99, 116, 101, 100, 93>>

\* "/cdn-cgi/l/email-protection", the href of an a.__cf_email__
CF_HREF == SubSeq(STR_PROTECTION_PATH, 1, Len(STR_PROTECTION_PATH) - 1)

Obfuscated(email) == Encode(90, email, FALSE)

CfLink(cfemail) ==
    [cls |-> CF_CLASS, has |-> TRUE, cfemail |-> cfemail,
     href |-> CF_HREF, text |-> TXT_PROTECTED]

PlainLink(href, text) ==
    [cls |-> "", has |-> FALSE, cfemail |-> EMPTY, href |-> href, text |-> text]

L_CF == CfLink(Obfuscated(TXT_MAIL_J))
L_CF_BAD == CfLink(TXT_NOT_HEX)
L_CF_NOT_MAIL == CfLink(Obfuscated(TXT_NOT_MAIL))
L_MAILTO == PlainLink(STR_MAILTO \o TXT_MAIL_M, TXT_EMAIL_LABEL)
L_PROTECTION == PlainLink(STR_PROTECTION_PATH \o Obfuscated(TXT_MAIL_P), TXT_PROTECTED)
L_TEXT == PlainLink(TXT_CONTACT, TXT_MAIL_T)

\* the anchors of a card
LinkSeqs ==
    {EMPTY, <<L_CF>>, <<L_CF_BAD>>, <<L_CF_NOT_MAIL>>, <<L_MAILTO>>,
     <<L_PROTECTION>>, <<L_TEXT>>, <<L_CF_BAD, L_MAILTO>>,
     <<L_MAILTO, L_PROTECTION>>, <<L_PROTECTION, L_CF>>}

NoElement == [sel |-> "none", txt |-> EMPTY]
NoSpan == [present |-> FALSE, has |-> FALSE, cfemail |-> EMPTY]

NameElements == {NoElement, [sel |-> H2_TITLE, txt |-> TXT_JANE]}

CompanyElements ==
    {NoElement, [sel |-> P_GREY, txt |-> TXT_ABC], [sel |-> P_SUBTITLE, txt |-> TXT_PTE]}

CardTexts == {EMPTY, TXT_MAIL_C}

Spans ==
    {NoSpan, [present |-> TRUE, has |-> TRUE, cfemail |-> Obfuscated(TXT_MAIL_S)]}

Cards ==
    [name : NameElements, company : CompanyElements, text : CardTexts,
     links : LinkSeqs, span : Spans]

MakeCard(name, company, links) ==
    [name |-> name, company |-> company, text |-> EMPTY, links |-> links,
     span |-> NoSpan]

\* a listing entry as the site serves it, one whose payload is not hex, and
\* an entry of the AJAX endpoint
PlainCard ==
    MakeCard([sel |-> H2_TITLE, txt |-> TXT_JANE], [sel |-> P_GREY, txt |-> TXT_ABC],
             <<L_CF>>)
BadPayloadCard ==
    MakeCard([sel |-> H2_TITLE, txt |-> TXT_JANE], [sel |-> P_GREY, txt |-> TXT_ABC],
             <<L_CF_BAD>>)
BlankCard == MakeCard(NoElement, NoElement, EMPTY)
ApiCard ==
    MakeCard([sel |-> "h5", txt |-> TXT_JANE], [sel |-> P_SUBTITLE, txt |-> TXT_ABC],
             <<L_MAILTO>>)

Div(cls, card) == [class |-> cls, card |-> card]

\* the divs of the pages that hold more than one
CoreDivs ==
    {Div("testimonial-cite", PlainCard),
     Div("testimonial-cite", BadPayloadCard),
     Div("testimonial-cite", BlankCard),
     Div("search-result-item", ApiCard),
     Div("specialist-card", PlainCard),
     Div("sidebar", MakeCard(NoElement, NoElement, <<L_PROTECTION>>))}

\* payloads of loose fragments: of "r@q.io", a key with no payload, odd length
LooseCodes == {Obfuscated(TXT_MAIL_R), TXT_KEY_ONLY, Obfuscated(TXT_MAIL_R) \o <<55>>}

Response(status, divs, loose) == [status |-> status, divs |-> divs, loose |-> loose]

NoResponse == Response("none", EMPTY, EMPTY)
HttpErrorPage == Response("http_error", EMPTY, EMPTY)
EmptyPage == Response("ok", EMPTY, EMPTY)
PlainPage == Response("ok", <<Div("testimonial-cite", PlainCard)>>, EMPTY)

\* the responses a short site can hold at its featured index
SmallPages ==
    {HttpErrorPage, EmptyPage, PlainPage,
     Response("ok", <<Div("testimonial-cite", PlainCard),
                      Div("testimonial-cite", BadPayloadCard)>>, EMPTY),
     Response("ok", <<Div("testimonial-cite", BlankCard)>>, EMPTY),
     Response("ok", <<Div("search-result-item", ApiCard)>>, EMPTY),
     Response("ok", EMPTY, <<Obfuscated(TXT_MAIL_R)>>)}

\* outcomes of scraper.py's JSON endpoint alone
ApiPages == {Response("bad_json", EMPTY, EMPTY), Response("not_success", EMPTY, EMPTY)}

\* the responses the last page can hold beyond those
RichPages ==
    {Response("ok", <<Div(cls, card)>>, EMPTY) : cls \in DivClasses, card \in Cards}
    \cup {Response("ok", divs, EMPTY) : divs \in SeqsUpTo(CoreDivs, MaxCards)}
    \cup {Response("ok", EMPTY, loose) : loose \in SeqsUpTo(LooseCodes, MaxLoose)}

\* the site away from its featured index: a failed request, an empty page
\* and a page with one entry, in turn
BasePage(j) ==
    IF j % 3 = 1 THEN HttpErrorPage
    ELSE IF j % 3 = 2 THEN EmptyPage
    ELSE PlainPage

\* what a request for page j can be answered with
Served(j) ==
    IF j # featured THEN {BasePage(j)}
    ELSE SmallPages
         \cup (IF variant = "scraper" THEN ApiPages ELSE {})
         \cup (IF j = TOTAL_PAGES THEN RichPages ELSE {})

\* ------------------------------------------------ scraper2.py, scraper3.py

DecodeIdle ==
    /\ dec_pc = "idle"
    /\ dec_src = "none"
    /\ dec_key = 0
    /\ dec_payload = EMPTY
    /\ dec_in = EMPTY
    /\ dec_out = Returned(EMPTY)

\* the scripts as started: the output file holds its header, the loop is at
\* its first page
Init ==
    /\ variant \in {"scraper", "scraper2", "scraper3"}
    /\ featured \in 1..TOTAL_PAGES
    /\ pc = "loop"
    /\ page = 1
    /\ doc = NoResponse
    /\ sel = 0
    /\ idx = 0
    /\ raised = FALSE
    /\ tried = EMPTY
    /\ yielded = EMPTY
    /\ data = EMPTY
    /\ written = EMPTY
    /\ visited = EMPTY
    /\ DecodeIdle

\* the selectors scrape_page evaluates on response d, in order: scraper3 only
\* the primary one, scraper2 up to the first that matches
UpTo(first) ==
    IF first = 0 THEN [k \in 1..Len(Selectors) |-> k] ELSE [k \in 1..first |-> k]

Evaluated(d) == IF variant = "scraper3" THEN <<1>> ELSE UpTo(FirstMatching(d))

\* the selector whose matches scrape_page iterates, 0 for none
Chosen(d) ==
    IF variant = "scraper3" THEN (IF Select(d, 1) # EMPTY THEN 1 ELSE 0)
    ELSE FirstMatching(d)

\* where scrape_page goes after the request and the selectors: to the cards,
\* to the last resort (scraper2, no selector matched, the markup holds
\* fragments), or to its end
AfterSelect(d) ==
    IF Chosen(d) # 0 THEN "cards"
    ELSE IF variant = "scraper2" /\ RawMatches(d) # EMPTY THEN "raw"
    ELSE "sleep"

\* for page in range(1, TOTAL_PAGES + 1), up to the first card of scrape_page:
\* the request (scraper2 returns on its failure, scraper3 raises into main's
\* except clause) and the selectors
MainFetch ==
    /\ variant \in {"scraper2", "scraper3"}
    /\ pc = "loop"
    /\ \E d \in Served(page) :
        /\ doc' = d
        /\ visited' = Append(visited, page)
        /\ yielded' = EMPTY
        /\ idx' = 1
        /\ IF d.status # "ok"
              THEN /\ pc' = "sleep"
                   /\ sel' = 0
                   /\ tried' = EMPTY
                   /\ raised' = (variant = "scraper3")
              ELSE /\ pc' = AfterSelect(d)
                   /\ sel' = Chosen(d)
                   /\ tried' = Evaluated(d)
                   /\ raised' = FALSE
    /\ UNCHANGED <<variant, featured, page, data, written, decvars>>

\* one card of the chosen selector
CardOutcome(card) ==
    IF variant = "scraper2" THEN Card2(card, sel = 1) ELSE Card3(card)

\* main's "if any(record)" of scraper2; scraper3 writes every record
Keeps(rec) == variant = "scraper3" \/ AnyField(rec)

WriteRow(rows, rec) == IF Keeps(rec) THEN Append(rows, rec) ELSE rows

\* one turn of "for record in scrape_page(page)" over a card: the record is
\* yielded and written, or the exception ends the page
MainCard ==
    /\ pc = "cards"
    /\ variant \in {"scraper2", "scraper3"}
    /\ \E out \in {CardOutcome(Select(doc, sel)[idx])} :
           IF out.raised
               THEN /\ raised' = TRUE
                    /\ pc' = "sleep"
                    /\ UNCHANGED <<idx, yielded, written>>
               ELSE /\ yielded' = Append(yielded,
                          [rec |-> out.rec, from |-> "card", sel |-> sel,
                           pos |-> idx, via |-> out.via])
                    /\ written' = WriteRow(written, out.rec)
                    /\ idx' = idx + 1
                    /\ pc' = IF idx = Len(Select(doc, sel)) THEN "sleep" ELSE "cards"
                    /\ UNCHANGED raised
    /\ UNCHANGED <<variant, featured, page, doc, sel, tried, data, visited, decvars>>

\* the last resort were it to keep every match
KeepsEvery(decoded_email) == TRUE

\* "if decoded_email:" of the last resort
KeepsDecoded(decoded_email) == decoded_email # EMPTY

\* one turn over a match of the last resort of scraper2.scrape_page
MainRaw ==
    /\ pc = "raw"
    /\ variant = "scraper2"
    /\ \E decoded_email \in {cf_decode2(RawMatches(doc)[idx]).val} :
           IF KeepsDecoded(decoded_email)
               THEN /\ yielded' = Append(yielded,
                          [rec |-> SentinelRecord(decoded_email), from |-> "raw",
                           sel |-> 0, pos |-> idx, via |-> "raw"])
                    /\ written' = WriteRow(written, SentinelRecord(decoded_email))
               ELSE UNCHANGED <<yielded, written>>
    /\ idx' = idx + 1
    /\ pc' = IF idx = Len(RawMatches(doc)) THEN "sleep" ELSE "raw"
    /\ UNCHANGED <<variant, featured, page, doc, sel, raised, tried, data, visited,
                   decvars>>

\* time.sleep(1) and the next turn of the page loop, or its end
MainSleep ==
    /\ pc = "sleep"
    /\ variant \in {"scraper2", "scraper3"}
    /\ page' = page + 1
    /\ pc' = IF page = TOTAL_PAGES THEN "done" ELSE "loop"
    /\ UNCHANGED <<variant, featured, doc, sel, idx, raised, tried, yielded, data,
                   written, visited, decvars>>

\* -------------------------------------------------------------- scraper.py

\* find_all('div', class_='search-result-item')
ApiCards(d) == CardsOf(SelectSeq(d.divs, LAMBDA v : v.class = "search-result-item"))

\* html_content
HasContent(d) == d.divs # EMPTY \/ d.loose # EMPTY

\* how one turn of scraper.py's loop leaves the request: "continue" (an
\* exception, or success false), "break" (no content, or no cards), "cards"
RequestOutcome(d) ==
    IF d.status # "ok" THEN "continue"
    ELSE IF ~HasContent(d) \/ ApiCards(d) = EMPTY THEN "break"
    ELSE "cards"

\* where the loop stands after the turn for page j ended without a break
NextTurn(j) == IF j = TOTAL_PAGES THEN "save" ELSE "loop"

\* for page_num in range(1, TOTAL_PAGES + 1): the request and its checks
ScraperRequest ==
    /\ variant = "scraper"
    /\ pc = "loop"
    /\ \E d \in Served(page) :
        /\ doc' = d
        /\ visited' = Append(visited, page)
        /\ raised' = (d.status \in {"http_error", "bad_json"})
        /\ idx' = 1
        /\ IF RequestOutcome(d) = "continue"
              THEN pc' = NextTurn(page) /\ page' = page + 1
              ELSE IF RequestOutcome(d) = "break"
                  THEN pc' = "save" /\ page' = page
                  ELSE pc' = "cards" /\ page' = page
    /\ UNCHANGED <<variant, featured, sel, tried, yielded, data, written, decvars>>

\* for card in specialist_cards, then time.sleep(1) after the last one
ScraperCard ==
    /\ variant = "scraper"
    /\ pc = "cards"
    /\ data' = Append(data, Card1(ApiCards(doc)[idx]))
    /\ idx' = idx + 1
    /\ IF idx = Len(ApiCards(doc))
          THEN pc' = NextTurn(page) /\ page' = page + 1
          ELSE pc' = "cards" /\ page' = page
    /\ UNCHANGED <<variant, featured, doc, sel, raised, tried, yielded, written,
                   visited, decvars>>

\* Step 3: df.to_csv when anything was extracted
ScraperSave ==
    /\ variant = "scraper"
    /\ pc = "save"
    /\ written' = data
    /\ pc' = "done"
    /\ UNCHANGED <<variant, featured, page, doc, sel, idx, raised, tried, yielded,
                   data, visited, decvars>>

Next ==
    \/ MainFetch
    \/ MainCard
    \/ MainRaw
    \/ MainSleep
    \/ ScraperRequest
    \/ ScraperCard
    \/ ScraperSave

Spec == Init /\ [][Next]_vars

\* ------------------------------------------------- decoder inputs (harness)

Bytes == 0..255

\* payload bytes an encoded argument is built from: NUL, ' ', '@', 'a', 0xFF
PayloadBytes == {0, 32, 64, 97, 255}

\* characters of arbitrary arguments: '4', '1', 'a', 'F', 'g', ' ', '-'
RawChars == {52, 49, 97, 70, 103, 32, 45}

RunIdle ==
    /\ featured = 1
    /\ pc = "idle"
    /\ page = 1
    /\ doc = NoResponse
    /\ sel = 0
    /\ idx = 0
    /\ raised = FALSE
    /\ tried = EMPTY
    /\ yielded = EMPTY
    /\ data = EMPTY
    /\ written = EMPTY
    /\ visited = EMPTY

InitDecode ==
    /\ variant \in {"scraper2", "scraper3"}
    /\ RunIdle
    /\ dec_pc = "call"
    /\ dec_out = Returned(EMPTY)
    /\ \/ /\ dec_src = "encoded"
          /\ dec_key \in Bytes
          /\ dec_payload \in SeqsUpTo(PayloadBytes, MaxPayloadLen)
          /\ \E upper \in BOOLEAN : dec_in = Encode(dec_key, dec_payload, upper)
       \/ /\ dec_src = "raw"
          /\ dec_key = 0
          /\ dec_payload = EMPTY
          /\ dec_in \in SeqsUpTo(RawChars, MaxHexLen)

\* a call of scraper2.cf_decode
Decode2 ==
    /\ dec_pc = "call"
    /\ variant = "scraper2"
    /\ dec_out' = cf_decode2(dec_in)
    /\ dec_pc' = "done"
    /\ UNCHANGED <<variant, runvars, dec_src, dec_key, dec_payload, dec_in>>

\* a call of scraper3.cf_decode
Decode3 ==
    /\ dec_pc = "call"
    /\ variant = "scraper3"
    /\ dec_out' = cf_decode3(dec_in)
    /\ dec_pc' = "done"
    /\ UNCHANGED <<variant, runvars, dec_src, dec_key, dec_payload, dec_in>>

NextDecode == Decode2 \/ Decode3

SpecDecode == InitDecode /\ [][NextDecode]_vars

\* ------------------------------------------- name and company inputs (harness)

\* pieces of name texts: "jane", "TAN", "o'n", " ", ",", a tab
NamePieces == {<<106, 97, 110, 101>>, <<84, 65, 78>>, <<111, 39, 110>>, <<32>>, <<44>>, <<9>>}

\* pieces of company texts: "ABC ", "Pte Ltd", "P", "te ltd", " ", "x"
CompanyPieces ==
    {<<65, 66, 67, 32>>, <<80, 116, 101, 32, 76, 116, 100>>, <<80>>,
     <<116, 101, 32, 108, 116, 100>>, <<32>>, <<120>>}

\* the texts put together from at most n pieces
Texts(pieces, n) == {Concat(ps) : ps \in SeqsUpTo(pieces, n)}

InitText ==
    /\ variant = "scraper2"
    /\ RunIdle
    /\ dec_pc = "call"
    /\ dec_out = Returned(EMPTY)
    /\ dec_key = 0
    /\ dec_payload = EMPTY
    /\ \/ dec_src = "name" /\ dec_in \in Texts(NamePieces, MaxNamePieces)
       \/ dec_src = "company" /\ dec_in \in Texts(CompanyPieces, MaxCompanyPieces)

\* a call of scraper2.parse_name
ParseName ==
    /\ dec_pc = "call"
    /\ dec_src = "name"
    /\ dec_out' = Returned(parse_name(dec_in))
    /\ dec_pc' = "done"
    /\ UNCHANGED <<variant, runvars, dec_src, dec_key, dec_payload, dec_in>>

\* a call of scraper2.clean_company_name
CleanCompany ==
    /\ dec_pc = "call"
    /\ dec_src = "company"
    /\ dec_out' = Returned(clean_company_name(dec_in))
    /\ dec_pc' = "done"
    /\ UNCHANGED <<variant, runvars, dec_src, dec_key, dec_payload, dec_in>>

NextText == ParseName \/ CleanCompany

SpecText == InitText /\ [][NextText]_vars

\* ------------------------------------------------------------------ claims

\* the card a yielded entry was made from
CardAt(e) == Select(doc, e.sel)[e.pos]

\* the entries of the current page that were made from cards
CardEntries == {n \in 1..Len(yielded) : yielded[n].from = "card"}

\* a page of scraper2 (scraper3) whose request succeeded, and one whose
\* scrape_page has come to its end
Scraped2 == variant = "scraper2" /\ doc.status = "ok"
PageDone == pc = "sleep" /\ doc.status = "ok"

\* the five strategies of the specification for one card, in its order: the
\* a.__cf_email__ element, the mailto link, the email-protection anchors'
\* payloads, the pattern in the card text, the scan of all anchors
Strategies(card) ==
    <<Method1(card), Method2(card), ProtectionScan(ProtectionLinks(card), FALSE),
      TextScan(card), LinkTextScan(card.links)>>

\* the place in that order of the strategy an email came from; the fallback
\* branch's span.__cf_email__ counts as the obfuscated element
Rank(via) ==
    CASE via \in {"cfemail", "cfspan"} -> 1
      [] via = "mailto" -> 2
      [] via = "protection" -> 3
      [] via = "text" -> 4
      [] OTHER -> 5

NothingBefore(card, rank) == \A k \in 1..(rank - 1) : Strategies(card)[k].email = EMPTY

\* C1: in both branches of scraper2.scrape_page the email of a card's record
\* comes from a strategy only when every strategy of higher priority produced
\* nothing, and is empty only when all five strategies produce nothing.
C1_StrictPriority ==
    variant = "scraper2" =>
        \A n \in CardEntries :
            IF yielded[n].via = "none"
                THEN NothingBefore(CardAt(yielded[n]), 6)
                ELSE NothingBefore(CardAt(yielded[n]), Rank(yielded[n].via))

\* C2: for every key byte k and payload p, cf_decode (of scraper2 and of
\* scraper3) applied to the hex of k followed by the hex of each p[i] XOR k
\* returns exactly the string whose i-th character has code p[i].
C2_RoundTrip ==
    (dec_pc = "done" /\ dec_src = "encoded") => dec_out = Returned(dec_payload)

C2_Witness ==
    /\ dec_pc = "done"
    /\ dec_src = "encoded"
    /\ dec_key = 90
    /\ dec_payload = <<97, 64>>
    /\ dec_out = Returned(<<97, 64>>)

\* a card whose data-cfemail payload the decoder cannot parse
Malformed(card) == HasEncoded(card) /\ ~cf_decode3(EncodedAttr(card)).ok

\* the fields of a record before its email, the last one
Fields(rec) == SubSeq(rec, 1, Len(rec) - 1)

\* entry e carries the card's name and company, and no email out of the
\* card's a.__cf_email__ element
Intact(e) ==
    /\ e.via # "cfemail"
    /\ Fields(e.rec) =
           IF variant = "scraper3"
               THEN <<ElementText(CardAt(e).name, PrimaryNameSels),
                      ElementText(CardAt(e).company, PrimaryCompanySels)>>
               ELSE Fields(Card2With(CardAt(e), e.sel = 1, NotFound).rec)

\* C3: on a page with a card whose payload is undecodable, scrape_page (of
\* scraper2 and of scraper3) yields a record for every card of the page, in
\* order, that card's with its name and company intact and no email decoded
\* from the payload.
C3_NeverAborts ==
    (PageDone /\ sel # 0 /\ \E i \in 1..Len(Select(doc, sel)) : Malformed(Select(doc, sel)[i]))
        => /\ Len(yielded) = Len(Select(doc, sel))
           /\ \A n \in 1..Len(yielded) :
                /\ yielded[n].pos = n
                /\ Malformed(CardAt(yielded[n])) => Intact(yielded[n])

\* C4: scraper2.scrape_page reads the cards of exactly one selector, the
\* first of primary-then-fallbacks that matches: no selector before it
\* matches, none after it is evaluated, and every record made from a card is
\* made from a match of it, one record per match in document order.
C4_OneSelector ==
    (Scraped2 /\ pc \in {"cards", "raw", "sleep"}) =>
        /\ \A k \in 1..Len(Selectors) : k < sel \/ sel = 0 => Select(doc, k) = EMPTY
        /\ sel # 0 => Select(doc, sel) # EMPTY
        /\ \A n \in 1..Len(tried) : tried[n] = n /\ (sel # 0 => n <= sel)
        /\ \A n \in CardEntries :
             /\ yielded[n].sel = sel
             /\ yielded[n].pos = n
             /\ n <= Len(Select(doc, sel))
             /\ yielded[n].rec = Card2(CardAt(yielded[n]), sel = 1).rec
        /\ (pc = "sleep" /\ sel # 0) => Len(yielded) = Len(Select(doc, sel))

C4_Witness ==
    /\ Scraped2
    /\ pc = "sleep"
    /\ sel = 2
    /\ Select(doc, 4) # EMPTY
    /\ Select(doc, 5) # EMPTY
    /\ Select(doc, 5) # Select(doc, 2)
    /\ Len(yielded) = 1

\* the records of a sequence of yielded entries
Records(entries) == [n \in 1..Len(entries) |-> entries[n].rec]

\* the sentinel records of the matches that decode to something, in order
RECURSIVE SentinelRows(_)
SentinelRows(codes) ==
    IF codes = EMPTY THEN EMPTY
    ELSE (IF cf_decode2(Head(codes)).val # EMPTY
              THEN <<SentinelRecord(cf_decode2(Head(codes)).val)>>
              ELSE EMPTY)
         \o SentinelRows(Tail(codes))

\* C5, as stated: when, and only when, no selector matches, scraper2's
\* scrape_page yields one sentinel record per match of the email-protection
\* pattern in the raw markup.
C5_OnePerMatch ==
    (Scraped2 /\ pc = "sleep") =>
        IF sel = 0
            THEN /\ Len(yielded) = Len(RawMatches(doc))
                 /\ \A n \in 1..Len(yielded) : yielded[n].from = "raw"
            ELSE \A n \in 1..Len(yielded) : yielded[n].from = "card"

\* C5, amended: when, and only when, no selector matches, scraper2's
\* scrape_page yields one record per match of the email-protection pattern
\* whose payload decodes to a non-empty string, in the order of the matches,
\* each with the decoded email and the non-blank name and company sentinels.
C5_OnePerDecodedMatch ==
    (Scraped2 /\ pc = "sleep") =>
        IF sel = 0
            THEN /\ Records(yielded) = SentinelRows(RawMatches(doc))
                 /\ \A n \in 1..Len(yielded) :
                      /\ yielded[n].from = "raw"
                      /\ yielded[n].rec[3] = STR_NAME_NOT_FOUND_TITLE
                      /\ yielded[n].rec[4] # EMPTY
                      /\ yielded[n].rec[5] # EMPTY
            ELSE \A n \in 1..Len(yielded) : yielded[n].from = "card"

C5_Witness ==
    /\ Scraped2
    /\ pc = "sleep"
    /\ sel = 0
    /\ Len(RawMatches(doc)) = 2
    /\ Len(yielded) = 1
    /\ yielded[1].rec[5] = TXT_MAIL_R

\* C6: main (of scraper2 and of scraper3) writes a record exactly when one of
\* its fields is non-empty: no written row has all its fields empty, and
\* every yielded record with a non-empty field is written.
C6_WrittenIffNonEmpty ==
    variant \in {"scraper2", "scraper3"} =>
        /\ \A i \in 1..Len(written) : AnyField(written[i])
        /\ \A n \in 1..Len(yielded) :
             AnyField(yielded[n].rec) =>
                 \E i \in 1..Len(written) : written[i] = yielded[n].rec

\* C7: the driver (of scraper2, scraper3 and scraper.py) has, when it ends,
\* visited every page 1..TOTAL_PAGES once, in ascending order, whatever the
\* pages held.
C7_VisitsEveryPage ==
    pc = "done" => visited = [i \in 1..TOTAL_PAGES |-> i]

\* email is one whole match of the extractor's pattern
ValidEmail(email) == \E x \in EmailEnds(email, 1) : x[2] = Len(email)

\* C8: every record scraper2.scrape_page yields has an email that is empty or
\* a syntactically valid address, whichever strategy produced it.
C8_EmailValidOrEmpty ==
    variant = "scraper2" =>
        \A n \in 1..Len(yielded) :
            yielded[n].rec[5] = EMPTY \/ ValidEmail(yielded[n].rec[5])

\* C9: cf_decode on an input containing a non-hex character fails with an
\* error, rather than returning a decoded or an empty string.
C9_NonHexRaises ==
    (dec_pc = "done" /\ \E i \in 1..Len(dec_in) : ~IsHexDigit(dec_in[i]))
        => ~dec_out.ok

\* C10: cf_decode returns the empty string, without raising, for every input
\* of length less than 2.
C10_ShortReturnsEmpty ==
    (dec_pc = "done" /\ Len(dec_in) < 2) => dec_out = Returned(EMPTY)

\* where the tokens of s start and end, the characters of seps separating them
TokenStarts(s, seps) ==
    {i \in 1..Len(s) : s[i] \notin seps /\ (i = 1 \/ s[i - 1] \in seps)}

TokenEnds(s, seps) ==
    {i \in 1..Len(s) : s[i] \notin seps /\ (i = Len(s) \/ s[i + 1] \in seps)}

Greatest(S) == CHOOSE x \in S : \A y \in S : y <= x

\* the first and the last token between given starts and ends
FirstToken(s, starts, ends) == SubSeq(s, Least(starts), Least(ends))
LastToken(s, starts, ends) == SubSeq(s, Greatest(starts), Greatest(ends))

\* names is what name splitting gives for tokens that start and end there
SplitBetween(s, starts, ends, names) ==
    IF starts = {} THEN names = <<EMPTY, EMPTY>>
    ELSE IF Cardinality(starts) = 1 THEN names = <<FirstToken(s, starts, ends), EMPTY>>
    ELSE names = <<FirstToken(s, starts, ends), LastToken(s, starts, ends)>>

SplitsInto(s, seps, names) ==
    SplitBetween(s, TokenStarts(s, seps), TokenEnds(s, seps), names)

\* C11, as stated: parse_name returns the first and the last token of the
\* title-cased name (the one token and "", or "" and "", when there are fewer
\* than two), the tokens being the words that whitespace separates.
C11_SplitsOnWhitespace ==
    (dec_pc = "done" /\ dec_src = "name")
        => SplitsInto(Title(Strip(dec_in)), SpaceChars, dec_out.val)

\* C11, amended: parse_name returns the first and the last token of the
\* title-cased name (the one token and "", or "" and "", when there are fewer
\* than two), the tokens being the maximal runs of characters that are
\* neither whitespace nor commas.
C11_SplitsOnWhitespaceAndCommas ==
    (dec_pc = "done" /\ dec_src = "name")
        => /\ dec_out.ok
           /\ SplitsInto(Title(Strip(dec_in)), SpaceChars \cup {44}, dec_out.val)
           /\ dec_in = EMPTY => dec_out.val = <<EMPTY, EMPTY>>
           /\ dec_in = TXT_JANE =>
                 dec_out.val = <<<<74, 97, 110, 101>>, <<84, 97, 110>>>>

\* "TAN,jane" is split at its comma: first "Tan", last "Jane"
C11_Witness ==
    /\ dec_pc = "done"
    /\ dec_src = "name"
    /\ dec_in = <<84, 65, 78, 44, 106, 97, 110, 101>>
    /\ dec_out.val = <<<<84, 97, 110>>, <<74, 97, 110, 101>>>>

\* "PTE", whitespace or none, then "LTD", in any case, from position i to j
TokenAt(s, i, j) ==
    /\ UpperStr(SubSeq(s, i, i + 2)) = STR_PTE
    /\ UpperStr(SubSeq(s, j - 2, j)) = STR_LTD
    /\ \A k \in (i + 3)..(j - 3) : s[k] \in SpaceChars

\* s holds an occurrence of the legal-entity suffix token
HasSuffixToken(s) == \E i \in 1..Len(s) : \E j \in (i + 5)..Len(s) : TokenAt(s, i, j)

\* C12: the result of clean_company_name holds no occurrence of the token
\* "PTE LTD" (in any case, whatever whitespace lies between its words), is
\* trimmed and title-cased, and is empty for empty input.
C12_SuffixStripped ==
    (dec_pc = "done" /\ dec_src = "company")
        => /\ dec_out.ok
           /\ ~HasSuffixToken(dec_out.val)
           /\ Strip(dec_out.val) = dec_out.val
           /\ Title(dec_out.val) = dec_out.val
           /\ dec_in = EMPTY => dec_out.val = EMPTY
           /\ dec_in = TXT_ABC => dec_out.val = <<65, 98, 99>>

====
